---- MODULE Spec2Model ----
(***************************************************************************)
(* Identity and credential core of the cloud-lms services: the two Flask   *)
(* authorization decorators (course-service/app/utils.py, progress-service *)
(* /app/utils.py) and the user service's registration and login paths      *)
(* (user-service/app/services.py, routes.py, models.py, shared/*.py).       *)
(***************************************************************************)
EXTENDS Integers, Sequences, FiniteSets, TLC

\* ------------------------------------------------------------------ bounds
MaxTime == 2        \* the clock runs over 0..MaxTime
MaxUserId == 2      \* user_id claims of presented tokens range over 1..MaxUserId

NumIVs == 2         \* Fernet draws its random IV from 1..NumIVs
NumSalts == 1       \* bcrypt.gensalt() draws from 1..NumSalts
NumThreads == 2       \* server threads that call the cipher at once
MaxUsers == 2       \* registration stops when the table holds MaxUsers rows
MaxLen == 1         \* the values given to the PII setters have at most MaxLen code points
MaxHashes == 2      \* set_password is called at most MaxHashes times on one object
MaxQueue == 2       \* the consumed queue holds at most MaxQueue messages

\* ------------------------------------------------------- program constants
\* JWT_EXPIRATION_HOURS = int(os.environ.get('JWT_EXPIRATION_HOURS', 24))
JWT_EXPIRATION_HOURS == 24
\* current_app.config['JWT_SECRET'] of the verifying service, and some other key
JWT_SECRET == "jwt-secret"
OtherSecret == "other-secret"

\* ---------------------------------------------------------------- tokens
\* A JWT as PyJWT sees it: its structure, the alg of its header, the key its
\* signature was made with, and its claim set (a dict: claims may be missing).
ClaimNames == {"user_id", "user_type", "exp"}
UserTypes == {"instructor", "student"}
Times == 0..MaxTime

FullClaims == [user_id : 1..MaxUserId, user_type : UserTypes, exp : 1..MaxTime]

Restrict(f, S) == [c \in S |-> f[c]]

Payloads == UNION { {Restrict(f, S) : f \in FullClaims} : S \in SUBSET ClaimNames }

\* the claim sets of the tokens the Token Service issues (every claim present)
IssuedPayloads == {p \in Payloads : DOMAIN p = ClaimNames}

\* the claim sets of the tokens that are rejected before user_id is read: they
\* vary in user_type and exp
UnreadPayloads == {p \in Payloads : "user_id" \in DOMAIN p /\ p.user_id = 1}

\* "empty" is the empty string; "malformed" is a non-empty string that is not
\* three base64url segments of JSON; "jwt" parses.
EmptyToken == [form |-> "empty", alg |-> "HS256", key |-> JWT_SECRET, claims |-> <<>>]

Tokens ==
    {EmptyToken} \cup
    [form : {"malformed"}, alg : {"HS256"}, key : {JWT_SECRET}, claims : UnreadPayloads] \cup
    [form : {"jwt"}, alg : {"HS512"}, key : {JWT_SECRET}, claims : UnreadPayloads] \cup
    [form : {"jwt"}, alg : {"HS256"}, key : {OtherSecret}, claims : UnreadPayloads] \cup
    [form : {"jwt"}, alg : {"HS256"}, key : {JWT_SECRET}, claims : Payloads]

\* The Authorization header: absent (None), or a string made of zero or more
\* leading words followed by a token string.  Every token is presented bare and
\* behind 'Bearer '; the tokens the Token Service could have issued are also
\* presented behind a lower-case and behind a doubled prefix.
NoHeader == [present |-> FALSE, pre |-> <<>>, tok |-> EmptyToken]

IssuedLike == [form : {"jwt"}, alg : {"HS256"}, key : {JWT_SECRET}, claims : IssuedPayloads]

Headers ==
    {NoHeader} \cup
    [present : {TRUE}, pre : {<<>>, <<"Bearer ">>}, tok : Tokens] \cup
    [present : {TRUE}, pre : {<<"bearer ">>, <<"Bearer ", "Bearer ">>}, tok : IssuedLike]

\* the caller's own positional and keyword arguments (Flask view arguments)
CallerArgs == { [pos |-> <<>>, kw |-> {}],
                [pos |-> <<9>>, kw |-> {<<"course_id", 7>>}] }

Guards == {"token_required", "instructor_required"}

VARIABLES
    now,           \* the wall clock, in hours
    req,           \* the last request to a guarded view, and what the guard did
    config,        \* the user service's Flask configuration
    cipher_suite,  \* shared/encryption.py: _cipher_suite
    senders,       \* shared/message_queue.py: _senders (the queues with a sender)
    users,         \* the committed rows of table users; the id is the position
    profiles,      \* the committed rows of table user_profiles
    queue,         \* the messages sent to 'course-service-incoming-events'
    registered,    \* the ids of the identities whose registration was answered 201
    http,          \* the last request to the user service, and its response
    calls,         \* the calls of _get_cipher_suite in progress, one per thread
    sessions,      \* the registrations in progress, one per thread
    progress,      \* progress service: the rows of table progress_tracking
    cache,         \* progress service: the response cache, by cache key
    presp,         \* progress service: the last request and its response
    obj,           \* a User or UserProfile object in memory, and the last call on it
    bus            \* the queue 'user-service-incoming-events' and its consumer

guardVars == <<now, req>>
userVars == <<config, cipher_suite, senders, users, profiles, queue, registered, http>>
progressVars == <<progress, cache, presp>>
unitVars == <<obj, bus>>
stepVars == <<calls, sessions, progressVars, unitVars>>
vars == <<guardVars, userVars, stepVars>>

\* ------------------------------------------------------------- jwt.decode
\* PyJWT's exception classes; all four derive from InvalidTokenError.
InvalidTokenErrors == {"DecodeError", "InvalidAlgorithmError",
                       "InvalidSignatureError", "ExpiredSignatureError"}

\* Python truthiness of the header value: None and "" are falsy.
Truthy(h) == h.present /\ ~(h.pre = <<>> /\ h.tok.form = "empty")

\* (mutant) the prefix is recognised in either case
StartsWithBearer_AnyCase(h) == h.pre # <<>> /\ Head(h.pre) \in {"Bearer ", "bearer "}

\* token.startswith('Bearer ') ; token[7:]
StartsWithBearer(h) == h.pre # <<>> /\ Head(h.pre) = "Bearer "

\* (mutant) the prefix is never removed
StripBearer_Never(h) == h

StripBearer(h) == IF StartsWithBearer(h) THEN [h EXCEPT !.pre = Tail(h.pre)] ELSE h

\* (mutant) the signature is not compared with the key
jwt_decode_NoSignatureCheck(s, key, t) ==
    IF s.pre # <<>> \/ s.tok.form # "jwt"
    THEN [exc |-> "DecodeError", data |-> <<>>]
    ELSE IF s.tok.alg # "HS256"
    THEN [exc |-> "InvalidAlgorithmError", data |-> <<>>]
    ELSE IF "exp" \in DOMAIN s.tok.claims /\ s.tok.claims.exp <= t
    THEN [exc |-> "ExpiredSignatureError", data |-> <<>>]
    ELSE [exc |-> "none", data |-> s.tok.claims]

\* (mutant) the exp claim is judged before the signature
jwt_decode_ExpiryFirst(s, key, t) ==
    IF s.pre # <<>> \/ s.tok.form # "jwt"
    THEN [exc |-> "DecodeError", data |-> <<>>]
    ELSE IF "exp" \in DOMAIN s.tok.claims /\ s.tok.claims.exp <= t
    THEN [exc |-> "ExpiredSignatureError", data |-> <<>>]
    ELSE IF s.tok.alg # "HS256"
    THEN [exc |-> "InvalidAlgorithmError", data |-> <<>>]
    ELSE IF s.tok.key # key
    THEN [exc |-> "InvalidSignatureError", data |-> <<>>]
    ELSE [exc |-> "none", data |-> s.tok.claims]

\* (mutant) a token is still good at the instant its exp names
jwt_decode_StrictExpiry(s, key, t) ==
    IF s.pre # <<>> \/ s.tok.form # "jwt"
    THEN [exc |-> "DecodeError", data |-> <<>>]
    ELSE IF s.tok.alg # "HS256"
    THEN [exc |-> "InvalidAlgorithmError", data |-> <<>>]
    ELSE IF s.tok.key # key
    THEN [exc |-> "InvalidSignatureError", data |-> <<>>]
    ELSE IF "exp" \in DOMAIN s.tok.claims /\ s.tok.claims.exp < t
    THEN [exc |-> "ExpiredSignatureError", data |-> <<>>]
    ELSE [exc |-> "none", data |-> s.tok.claims]

\* jwt.decode(token, key, algorithms=['HS256']) at time t: parse, then the
\* algorithm and the signature, then the exp claim.
jwt_decode(s, key, t) ==
    IF s.pre # <<>> \/ s.tok.form # "jwt"
    THEN [exc |-> "DecodeError", data |-> <<>>]
    ELSE IF s.tok.alg # "HS256"
    THEN [exc |-> "InvalidAlgorithmError", data |-> <<>>]
    ELSE IF s.tok.key # key
    THEN [exc |-> "InvalidSignatureError", data |-> <<>>]
    ELSE IF "exp" \in DOMAIN s.tok.claims /\ s.tok.claims.exp <= t
    THEN [exc |-> "ExpiredSignatureError", data |-> <<>>]
    ELSE [exc |-> "none", data |-> s.tok.claims]

\* ------------------------------------------------------------- the guards
\* What one invocation of a decorated view did: the response, the calls of the
\* wrapped function f it made, and how many times it called jwt.decode.
Rejected(status, code, decodes) ==
    [status |-> status, code |-> code, calls |-> <<>>, decodes |-> decodes]

\* (mutant) the user id is passed after the caller's arguments
CallWrapped_ArgsFirst(uid, a, decodes) ==
    [status |-> 200, code |-> "OK",
     calls |-> << [pos |-> a.pos \o <<uid>>, kw |-> a.kw] >>,
     decodes |-> decodes]

\* return f(current_user_id, *args, **kwargs); f answers 200 with the id it got
CallWrapped(uid, a, decodes) ==
    [status |-> 200, code |-> "OK",
     calls |-> << [pos |-> <<uid>> \o a.pos, kw |-> a.kw] >>,
     decodes |-> decodes]

\* the except clauses, in the order the code lists them
ExceptClauses(exc, decodes) ==
    IF exc = "ExpiredSignatureError" THEN Rejected(401, "TOKEN_EXPIRED", decodes)
    ELSE IF exc \in InvalidTokenErrors THEN Rejected(401, "TOKEN_INVALID", decodes)
    ELSE Rejected(401, "TOKEN_PROCESSING_ERROR", decodes)

\* (mutant) the token is decoded before the header is tested for absence
token_required_DecodeFirst(h, a, t) ==
    LET r == jwt_decode(StripBearer(h), JWT_SECRET, t)
    IN IF ~Truthy(h) THEN Rejected(401, "TOKEN_MISSING", 1)
       ELSE IF r.exc # "none" THEN ExceptClauses(r.exc, 1)
       ELSE IF "user_id" \notin DOMAIN r.data THEN ExceptClauses("KeyError", 1)
       ELSE CallWrapped(r.data.user_id, a, 1)

\* (mutant) the guard looks the identity up and rejects an inactive one
token_required_ChecksActive(h, a, t) ==
    IF ~Truthy(h) THEN Rejected(401, "TOKEN_MISSING", 0)
    ELSE LET r == jwt_decode(StripBearer(h), JWT_SECRET, t)
         IN IF r.exc # "none" THEN ExceptClauses(r.exc, 1)
            ELSE IF "user_id" \notin DOMAIN r.data THEN ExceptClauses("KeyError", 1)
            ELSE IF r.data.user_id \in 1..Len(users) /\ ~users[r.data.user_id].is_active
            THEN Rejected(401, "TOKEN_INVALID", 1)
            ELSE CallWrapped(r.data.user_id, a, 1)

token_required(h, a, t) ==
    IF ~Truthy(h) THEN Rejected(401, "TOKEN_MISSING", 0)
    ELSE LET r == jwt_decode(StripBearer(h), JWT_SECRET, t)
         IN IF r.exc # "none" THEN ExceptClauses(r.exc, 1)
            ELSE IF "user_id" \notin DOMAIN r.data THEN ExceptClauses("KeyError", 1)
            ELSE CallWrapped(r.data.user_id, a, 1)

\* (mutant) the role is read from the claims before the token is verified
instructor_required_RoleFirst(h, a, t) ==
    IF ~Truthy(h) THEN Rejected(401, "TOKEN_MISSING", 0)
    ELSE IF h.tok.form = "jwt" /\ ~("user_type" \in DOMAIN h.tok.claims
                                    /\ h.tok.claims.user_type = "instructor")
    THEN Rejected(403, "FORBIDDEN_ACCESS", 1)
    ELSE LET r == jwt_decode(StripBearer(h), JWT_SECRET, t)
         IN IF r.exc # "none" THEN ExceptClauses(r.exc, 1)
            ELSE IF "user_id" \notin DOMAIN r.data THEN ExceptClauses("KeyError", 1)
            ELSE CallWrapped(r.data.user_id, a, 1)

\* (mutant) a token without the user_type claim passes the role check
instructor_required_MissingRoleAllowed(h, a, t) ==
    IF ~Truthy(h) THEN Rejected(401, "TOKEN_MISSING", 0)
    ELSE LET r == jwt_decode(StripBearer(h), JWT_SECRET, t)
         IN IF r.exc # "none" THEN ExceptClauses(r.exc, 1)
            ELSE IF "user_type" \in DOMAIN r.data /\ r.data.user_type # "instructor"
            THEN Rejected(403, "FORBIDDEN_ACCESS", 1)
            ELSE IF "user_id" \notin DOMAIN r.data THEN ExceptClauses("KeyError", 1)
            ELSE CallWrapped(r.data.user_id, a, 1)

instructor_required(h, a, t) ==
    IF ~Truthy(h) THEN Rejected(401, "TOKEN_MISSING", 0)
    ELSE LET r == jwt_decode(StripBearer(h), JWT_SECRET, t)
         IN IF r.exc # "none" THEN ExceptClauses(r.exc, 1)
            ELSE IF "user_type" \notin DOMAIN r.data \/ r.data.user_type # "instructor"
            THEN Rejected(403, "FORBIDDEN_ACCESS", 1)
            ELSE IF "user_id" \notin DOMAIN r.data THEN ExceptClauses("KeyError", 1)
            ELSE CallWrapped(r.data.user_id, a, 1)

RunGuard(g, h, a, t) ==
    IF g = "token_required" THEN token_required(h, a, t) ELSE instructor_required(h, a, t)


\* ============================================================ user service
IVs == 1..NumIVs
Salts == 1..NumSalts

\* ------------------------------------------------- shared/encryption.py
\* _get_cipher_suite(): the handle is built on first use from ENCRYPTION_KEY
\* ("absent", "invalid" or "valid" in the configuration).
\* (mutant) a missing key is not detected: the handle is built all the same
_get_cipher_suite_NoKeyCheck(cfg, cs) ==
    IF cs # "None" THEN [exc |-> "none", cs |-> cs]
    ELSE IF cfg.ENCRYPTION_KEY = "invalid" THEN [exc |-> "ValueError", cs |-> cs]
    ELSE [exc |-> "none", cs |-> "Fernet"]

_get_cipher_suite(cfg, cs) ==
    IF cs # "None" THEN [exc |-> "none", cs |-> cs]
    ELSE IF cfg.ENCRYPTION_KEY = "absent" THEN [exc |-> "RuntimeError", cs |-> cs]
    ELSE IF cfg.ENCRYPTION_KEY = "invalid" THEN [exc |-> "ValueError", cs |-> cs]
    ELSE [exc |-> "none", cs |-> "Fernet"]

\* Fernet.encrypt: the ciphertext is made of the plaintext and a random IV, so
\* two encryptions of one string are equal only when their IVs are.
encrypt_data(data, iv) == [pt |-> data, iv |-> iv]

decrypt_data(c) == c.pt

\* bytes.hex() of a ciphertext, as put into the event
Hex(c) == [hex |-> c]

\* ------------------------------------------------------- app/models.py
\* bcrypt.hashpw(password, gensalt()) and bcrypt.checkpw
hashpw(password, salt) == [salt |-> salt, digest |-> <<"bcrypt", salt, password>>]

check_password(u, password) == u.password_hash = hashpw(password, u.password_hash.salt)

get_email(u) == decrypt_data(u.email_encrypted)

\* ----------------------------------------------------- app/services.py
Has(d, k) == k \in DOMAIN d

\* User.query.filter_by(email_encrypted=encrypt_data(email)).first(): the id
\* of the row whose ciphertext equals the fresh one, or 0 for None.
get_user_by_email(us, email, iv) ==
    LET hits == {i \in 1..Len(us) : us[i].email_encrypted = encrypt_data(email, iv)}
    IN IF hits = {} THEN 0 ELSE CHOOSE i \in hits : \A j \in hits : i <= j

\* the unique constraint on users.email_encrypted, checked by commit
UniqueViolation(us, c) == \E i \in 1..Len(us) : us[i].email_encrypted = c

NoCipher == [pt |-> "", iv |-> 0]

\* UserProfile.set_first_name / set_last_name / set_phone: an empty string
\* stores nothing
SetField(d, k, iv) == IF Has(d, k) /\ d[k] # "" THEN encrypt_data(d[k], iv) ELSE NoCipher

ProfileKeys == {"first_name", "last_name", "phone", "bio"}

\* ivs: the IVs of the encryptions this request makes, by purpose
create_user(us, ps, data, ivs, salt) ==
    IF get_user_by_email(us, data.email, ivs.lookup) # 0
    THEN [exc |-> "ValueError", users |-> us, profiles |-> ps, id |-> 0]
    ELSE LET user == [id |-> Len(us) + 1,
                      email_encrypted |-> encrypt_data(data.email, ivs.email),
                      password_hash |-> hashpw(data.password, salt),
                      user_type |-> data.user_type,
                      is_active |-> TRUE]
         IN IF UniqueViolation(us, user.email_encrypted)
            THEN [exc |-> "IntegrityError", users |-> us, profiles |-> ps, id |-> 0]
            ELSE LET us2 == Append(us, user)
                     profile == [user_id |-> user.id,
                                 first_name_encrypted |-> SetField(data, "first_name", ivs.first_name),
                                 last_name_encrypted |-> SetField(data, "last_name", ivs.last_name),
                                 phone_encrypted |-> SetField(data, "phone", ivs.phone),
                                 bio |-> IF Has(data, "bio") THEN data.bio ELSE ""]
                 IN [exc |-> "none", users |-> us2,
                     profiles |-> IF DOMAIN data \cap ProfileKeys # {}
                                  THEN Append(ps, profile) ELSE ps,
                     id |-> user.id]

\* (mutant) the lifetime is not added to the issue time
IssuedToken_NoLifetime(u, t) ==
    [form |-> "jwt", alg |-> "HS256", key |-> JWT_SECRET,
     claims |-> [user_id |-> u.id, email |-> get_email(u), user_type |-> u.user_type,
                 exp |-> t]]

\* AuthService.authenticate_user: the token, or EmptyToken for None
IssuedToken(u, t) ==
    [form |-> "jwt", alg |-> "HS256", key |-> JWT_SECRET,
     claims |-> [user_id |-> u.id, email |-> get_email(u), user_type |-> u.user_type,
                 exp |-> t + JWT_EXPIRATION_HOURS]]

\* (mutant) the password is not checked
authenticate_user_NoPasswordCheck(us, email, password, iv, t) ==
    LET id == get_user_by_email(us, email, iv)
    IN IF id = 0 THEN EmptyToken
       ELSE IF ~us[id].is_active THEN EmptyToken
       ELSE IssuedToken(us[id], t)

\* (mutant) is_active is not checked
authenticate_user_NoActiveCheck(us, email, password, iv, t) ==
    LET id == get_user_by_email(us, email, iv)
    IN IF id = 0 THEN EmptyToken
       ELSE IF ~check_password(us[id], password) THEN EmptyToken
       ELSE IssuedToken(us[id], t)

authenticate_user(us, email, password, iv, t) ==
    LET id == get_user_by_email(us, email, iv)
    IN IF id = 0 THEN EmptyToken
       ELSE IF ~check_password(us[id], password) THEN EmptyToken
       ELSE IF ~us[id].is_active THEN EmptyToken
       ELSE IssuedToken(us[id], t)

\* ---------------------------------------------------------------- actions
Idle == [guard |-> "none", header |-> NoHeader, args |-> [pos |-> <<>>, kw |-> {}],
         at |-> 0, replay |-> FALSE, out |-> Rejected(0, "none", 0)]

Accepted(r) == r.guard # "none" /\ Len(r.out.calls) > 0

\* One HTTP request to a view decorated with guard g.  replay records that the
\* same Authorization value was accepted by the request just before this one.
GuardRequest(g, h, a) ==
    /\ req' = [guard |-> g, header |-> h, args |-> a, at |-> now,
               replay |-> (req.header = h /\ (Accepted(req) \/ req.replay)),
               out |-> RunGuard(g, h, a, now)]
    /\ UNCHANGED <<now, userVars, stepVars>>

\* the wall clock (datetime.utcnow) advances
Tick ==
    /\ now < MaxTime
    /\ now' = now + 1
    /\ UNCHANGED <<req, userVars, stepVars>>

\* --------------------------------------------------- app/routes.py: register
\* request bodies: malformed JSON, or a JSON object
Malformed == [json |-> FALSE, data |-> <<>>]

Json(d) == [json |-> TRUE, data |-> d]

RegisterBodies ==
    { Malformed,
      Json(<<>>),
      Json([email |-> "a@example.com", password |-> "Secret123"]),
      Json([email |-> "a@example.com", password |-> "Secret123", user_type |-> "admin"]),
      Json([email |-> "a@example.com", password |-> "Secret123", user_type |-> "student"]),
      Json([email |-> "b@example.com", password |-> "Secret123", user_type |-> "instructor",
            first_name |-> "Ann", last_name |-> "", bio |-> "hi"]) }

LoginBodies ==
    { Malformed,
      Json(<<>>),
      Json([email |-> "a@example.com"]),
      Json([email |-> "a@example.com", password |-> "Secret123"]),
      Json([email |-> "a@example.com", password |-> "Other456"]),
      Json([email |-> "b@example.com", password |-> "Secret123"]) }

Field(d, k) == IF Has(d, k) THEN d[k] ELSE ""

\* str(e) of the exceptions that reach the handlers
KeyAbsentText == "ENCRYPTION_KEY not set in Flask configuration. Cannot encrypt/decrypt."

KeyInvalidText == "Invalid ENCRYPTION_KEY. Must be a URL-safe base64-encoded 32-byte key"

ExcText(exc) ==
    CASE exc = "ValueError" -> "User with this email already exists"
      [] exc = "IntegrityError" -> "UNIQUE constraint failed: users.email_encrypted"
      [] exc = "RuntimeError" -> "AZURE_SERVICE_BUS_CONNECTION_STRING not set in Flask configuration."
      [] exc = "Exception" -> "Failed to create ServiceBusSender"
      [] OTHER -> ""

\* the 'error' text of a response; e is str(e) of the caught ValueError
ErrorText(code, e) ==
    CASE code = "INVALID_JSON_FORMAT" -> "Malformed JSON"
      [] code = "INVALID_JSON" -> "Invalid JSON data"
      [] code = "MISSING_FIELDS" -> "Missing required fields"
      [] code = "INVALID_USER_TYPE" -> "Invalid user type"
      [] code = "MISSING_CREDENTIALS" -> "Email and password required"
      [] code = "INVALID_CREDENTIALS" -> "Invalid credentials"
      [] code = "REGISTRATION_VALIDATION_ERROR" -> e
      [] code \in {"REGISTRATION_ERROR", "LOGIN_ERROR"} -> "Internal server error"
      [] OTHER -> ""

\* the values of a request body (request_data=data in a log call)
ValuesOf(d) == {d[k] : k \in DOMAIN d}

\* the log record the handler writes on the path that ends with this code:
\* its event text and the strings passed as its keyword values.  (The records
\* of shared/message_queue.py carry the queue name and a size only.)
LogRecord(op, d, code, e) ==
    IF op = "register"
    THEN CASE code = "INVALID_JSON_FORMAT" ->
                [event |-> "Registration failed: Malformed JSON payload.", values |-> {}]
           [] code = "INVALID_JSON" ->
                [event |-> "Registration failed: No JSON data provided.", values |-> {}]
           [] code = "MISSING_FIELDS" ->
                [event |-> "Registration failed: Missing required fields.",
                 values |-> {"email", "password", "user_type"} \ DOMAIN d]
           [] code = "INVALID_USER_TYPE" ->
                [event |-> "Registration failed: Invalid user type.", values |-> {d.user_type}]
           [] code = "REGISTRATION_VALIDATION_ERROR" ->
                [event |-> "User registration failed due to invalid input.",
                 values |-> {e} \cup ValuesOf(d)]
           [] code = "REGISTRATION_ERROR" ->
                [event |-> "Error registering user.", values |-> {e} \cup ValuesOf(d)]
           [] OTHER ->
                [event |-> "User registered and event published", values |-> {d.user_type}]
    ELSE CASE code = "INVALID_JSON_FORMAT" ->
                [event |-> "Login failed: Malformed JSON payload.", values |-> {}]
           [] code = "INVALID_JSON" ->
                [event |-> "Login failed: No JSON data provided.", values |-> {}]
           [] code = "MISSING_CREDENTIALS" ->
                [event |-> "Login failed: Email or password missing.", values |-> {}]
           [] code = "INVALID_CREDENTIALS" ->
                [event |-> "Login failed: Invalid credentials for email.", values |-> {d.email}]
           [] code = "LOGIN_ERROR" ->
                [event |-> "Error during login process.", values |-> {e, d.email}]
           [] OTHER ->
                [event |-> "User logged in successfully.", values |-> {d.email}]

\* the response of the user service to one request, with what the request met:
\* dup, create_user was called with an email that a stored identity has; rows
\* and prows, the sizes of the two tables when the request arrived; log, the
\* record the handler wrote; e, str(e) of the exception the handler caught
Response(op, body, status, code, e, dup, token) ==
    [op |-> op, email |-> Field(body.data, "email"), password |-> Field(body.data, "password"),
     status |-> status, code |-> code, error |-> ErrorText(code, e),
     dup |-> dup, rows |-> Len(users), prows |-> Len(profiles),
     token |-> token, log |-> LogRecord(op, body.data, code, e)]

\* some stored identity has this plaintext email
EmailStored(us, email) == \E i \in 1..Len(us) : get_email(us[i]) = email

\* the IVs a body needs; an encryption that is not made draws no IV
IVsFor(d, k) == IF Has(d, k) /\ d[k] # "" THEN IVs ELSE {0}

\* publish_message: get_sender raises when the connection string is absent or
\* the sender cannot be created; a failure to send is logged and swallowed.
get_sender(cfg, snd, senderOk) ==
    IF snd THEN [exc |-> "none", senders |-> snd]
    ELSE IF ~cfg.AZURE_SERVICE_BUS_CONNECTION_STRING THEN [exc |-> "RuntimeError", senders |-> snd]
    ELSE IF ~senderOk THEN [exc |-> "Exception", senders |-> snd]
    ELSE [exc |-> "none", senders |-> TRUE]

\* POST /auth/register
Register(body, ivs, salt, senderOk, sendOk) ==
    /\ Len(users) < MaxUsers
    /\ UNCHANGED <<now, req, config, stepVars>>
    /\ LET d == body.data
           dup == EmailStored(users, d.email)
           Fail(status, code, e) ==
               /\ http' = Response("register", body, status, code, e, FALSE, EmptyToken)
               /\ UNCHANGED <<cipher_suite, senders, users, profiles, queue, registered>>
       IN IF ~body.json THEN Fail(400, "INVALID_JSON_FORMAT", "")
          ELSE IF DOMAIN d = {} THEN Fail(400, "INVALID_JSON", "")
          ELSE IF ~({"email", "password", "user_type"} \subseteq DOMAIN d)
          THEN Fail(400, "MISSING_FIELDS", "")
          ELSE IF d.user_type \notin {"student", "instructor"}
          THEN Fail(400, "INVALID_USER_TYPE", "")
          ELSE LET cs == _get_cipher_suite(config, cipher_suite)
               IN IF cs.exc = "ValueError"
                  THEN Fail(400, "REGISTRATION_VALIDATION_ERROR", KeyInvalidText)
                  ELSE IF cs.exc # "none" THEN Fail(500, "REGISTRATION_ERROR", KeyAbsentText)
                  ELSE LET cu == create_user(users, profiles, d, ivs, salt)
                           snd == get_sender(config, senders, senderOk)
                           event == [event_type |-> "user_registered",
                                     user_id |-> cu.id,
                                     user_type |-> d.user_type,
                                     email_encrypted |->
                                         Hex(encrypt_data(get_email(cu.users[cu.id]), ivs.event))]
                           status == IF cu.exc = "ValueError" THEN 400
                                     ELSE IF cu.exc # "none" \/ snd.exc # "none" THEN 500
                                     ELSE 201
                           code == IF status = 400 THEN "REGISTRATION_VALIDATION_ERROR"
                                   ELSE IF status = 500 THEN "REGISTRATION_ERROR"
                                   ELSE "CREATED"
                       IN /\ cipher_suite' = cs.cs
                          /\ users' = cu.users
                          /\ profiles' = cu.profiles
                          /\ senders' = IF cu.exc = "none" THEN snd.senders ELSE senders
                          /\ queue' = IF status = 201 /\ sendOk
                                      THEN Append(queue, event) ELSE queue
                          /\ registered' = IF status = 201
                                           THEN registered \cup {cu.id} ELSE registered
                          /\ http' = Response("register", body, status, code,
                                               ExcText(IF cu.exc # "none" THEN cu.exc ELSE snd.exc),
                                               dup, EmptyToken)

\* POST /auth/login
Login(body, iv) ==
    /\ UNCHANGED <<now, req, config, senders, users, profiles, queue, registered, stepVars>>
    /\ LET d == body.data
           Answer(status, code, token) ==
               http' = Response("login", body, status, code,
                                IF config.ENCRYPTION_KEY = "invalid"
                                THEN KeyInvalidText ELSE KeyAbsentText,
                                FALSE, token)
       IN IF ~body.json THEN Answer(400, "INVALID_JSON_FORMAT", EmptyToken) /\ UNCHANGED cipher_suite
          ELSE IF DOMAIN d = {} THEN Answer(400, "INVALID_JSON", EmptyToken) /\ UNCHANGED cipher_suite
          ELSE IF Field(d, "email") = "" \/ Field(d, "password") = ""
          THEN Answer(400, "MISSING_CREDENTIALS", EmptyToken) /\ UNCHANGED cipher_suite
          ELSE LET cs == _get_cipher_suite(config, cipher_suite)
                   token == authenticate_user(users, d.email, d.password, iv, now)
               IN IF cs.exc # "none"
                  THEN Answer(500, "LOGIN_ERROR", EmptyToken) /\ UNCHANGED cipher_suite
                  ELSE /\ cipher_suite' = cs.cs
                       /\ IF token = EmptyToken
                          THEN Answer(401, "INVALID_CREDENTIALS", EmptyToken)
                          ELSE Answer(200, "OK", token)

\* the client that just logged in calls a token_required view ("whoami") of
\* another service with the token of the login response
Whoami ==
    /\ http.op = "login" /\ http.status = 200
    /\ GuardRequest("token_required",
                    [present |-> TRUE, pre |-> <<"Bearer ">>, tok |-> http.token],
                    [pos |-> <<>>, kw |-> {}])

\* ------------------------------- shared/encryption.py, statement by statement
\* The threads of the server that call encrypt_data or decrypt_data.  Each call
\* runs _get_cipher_suite; the interpreter may switch threads between any two
\* of its statements, and the module holds no lock.
Threads == 1..NumThreads

\* pc: where each thread stands; built: how many times Fernet(key) returned a
\* handle; assigned: how many times _cipher_suite was assigned
NoCalls == [pc |-> [t \in Threads |-> "idle"], built |-> 0, assigned |-> 0]

At(t, l) == calls.pc[t] = l

Goto(t, l) == [calls EXCEPT !.pc[t] = l]

\* encrypt_data / decrypt_data is called: cipher_suite = _get_cipher_suite()
CallCipher(t) ==
    /\ At(t, "idle")
    /\ calls' = Goto(t, "test")
    /\ UNCHANGED <<guardVars, userVars, sessions, progressVars, unitVars>>

\* if _cipher_suite is None:
TestNone(t) ==
    /\ At(t, "test")
    /\ calls' = Goto(t, IF cipher_suite = "None" THEN "key" ELSE "return")
    /\ UNCHANGED <<guardVars, userVars, sessions, progressVars, unitVars>>

\* key = current_app.config.get('ENCRYPTION_KEY'); if not key: raise RuntimeError
ReadKey(t) ==
    /\ At(t, "key")
    /\ calls' = Goto(t, IF config.ENCRYPTION_KEY = "absent" THEN "raise" ELSE "build")
    /\ UNCHANGED <<guardVars, userVars, sessions, progressVars, unitVars>>

\* Fernet(key.encode('utf-8')), the right-hand side of the assignment; an
\* invalid key raises, which the except clause turns into ValueError
BuildFernet(t) ==
    /\ At(t, "build")
    /\ calls' = IF config.ENCRYPTION_KEY = "invalid"
                THEN Goto(t, "raise")
                ELSE [Goto(t, "assign") EXCEPT !.built = @ + 1]
    /\ UNCHANGED <<guardVars, userVars, sessions, progressVars, unitVars>>

\* _cipher_suite = <the handle just built>
AssignCipher(t) ==
    /\ At(t, "assign")
    /\ cipher_suite' = "Fernet"
    /\ calls' = [Goto(t, "return") EXCEPT !.assigned = @ + 1]
    /\ UNCHANGED <<guardVars, config, senders, users, profiles, queue, registered, http, sessions, progressVars, unitVars>>

\* return _cipher_suite, or the exception leaves the call
LeaveCipher(t) ==
    /\ At(t, "return") \/ At(t, "raise")
    /\ calls' = Goto(t, "idle")
    /\ UNCHANGED <<guardVars, userVars, sessions, progressVars, unitVars>>

\* ----------------------- register and create_user, commit by commit
\* Two requests for the same email, one without and one with profile fields.
RaceBodies ==
    { Json([email |-> "a@example.com", password |-> "Secret123", user_type |-> "student"]),
      Json([email |-> "a@example.com", password |-> "Secret123", user_type |-> "student",
            first_name |-> "Ann"]) }

\* a registration of a thread: pc, where the handler stands; fresh, no stored
\* identity had the email when the existence check ran; user_id, the identity
\* this request committed (0: none); exc, status and code, its outcome
NoSession == [pc |-> "idle", body |-> Json(<<>>), fresh |-> FALSE, user_id |-> 0,
              exc |-> "none", status |-> 0, code |-> "none"]

Finish(ses, exc, status, code) ==
    [ses EXCEPT !.pc = "done", !.exc = exc, !.status = status, !.code = code]

\* register validated the body; create_user runs the existence check:
\* existing_user = self.get_user_by_email(data['email'])
RegCheck(t, body, iv) ==
    /\ sessions[t].pc = "idle"
    /\ Len(users) < MaxUsers
    /\ LET cs == _get_cipher_suite(config, cipher_suite)
           ses == [NoSession EXCEPT !.body = body,
                                    !.fresh = ~EmailStored(users, body.data.email)]
       IN IF cs.exc = "ValueError"
          THEN /\ sessions' = [sessions EXCEPT ![t] =
                                  Finish(ses, cs.exc, 400, "REGISTRATION_VALIDATION_ERROR")]
               /\ UNCHANGED cipher_suite
          ELSE IF cs.exc # "none"
          THEN /\ sessions' = [sessions EXCEPT ![t] =
                                  Finish(ses, cs.exc, 500, "REGISTRATION_ERROR")]
               /\ UNCHANGED cipher_suite
          ELSE /\ cipher_suite' = cs.cs
               /\ sessions' = [sessions EXCEPT ![t] =
                     IF get_user_by_email(users, body.data.email, iv) # 0
                     THEN Finish(ses, "ValueError", 400, "REGISTRATION_VALIDATION_ERROR")
                     ELSE [ses EXCEPT !.pc = "checked"]]
    /\ UNCHANGED <<guardVars, config, senders, users, profiles, queue, registered, http, calls, progressVars, unitVars>>

\* user = User(...); set_email; set_password; db.session.add(user);
\* db.session.commit(): the unique constraint is checked against the rows
\* committed by now, and a violation reaches register as an Exception
RegCommitUser(t, iv, salt) ==
    /\ sessions[t].pc = "checked"
    /\ LET d == sessions[t].body.data
           user == [id |-> Len(users) + 1,
                    email_encrypted |-> encrypt_data(d.email, iv),
                    password_hash |-> hashpw(d.password, salt),
                    user_type |-> d.user_type,
                    is_active |-> TRUE]
       IN IF UniqueViolation(users, user.email_encrypted)
          THEN /\ sessions' = [sessions EXCEPT ![t] =
                                  Finish(@, "IntegrityError", 500, "REGISTRATION_ERROR")]
               /\ UNCHANGED users
          ELSE /\ users' = Append(users, user)
               /\ sessions' = [sessions EXCEPT ![t].user_id = user.id,
                                               ![t].pc = IF DOMAIN d \cap ProfileKeys # {}
                                                         THEN "profile" ELSE "created"]
    /\ UNCHANGED <<guardVars, config, cipher_suite, senders, profiles, queue, registered,
                   http, calls, progressVars, unitVars>>

\* profile = UserProfile(user_id=user.id); the setters; db.session.add(profile);
\* db.session.commit().  ok is FALSE when a setter or the commit raises (a
\* profile value that is not a string, a database error); the exception
\* reaches register, and nothing undoes the commit of the identity.
RegCommitProfile(t, ivs, ok) ==
    /\ sessions[t].pc = "profile"
    /\ LET d == sessions[t].body.data
           profile == [user_id |-> sessions[t].user_id,
                       first_name_encrypted |-> SetField(d, "first_name", ivs.first_name),
                       last_name_encrypted |-> SetField(d, "last_name", ivs.last_name),
                       phone_encrypted |-> SetField(d, "phone", ivs.phone),
                       bio |-> IF Has(d, "bio") THEN d.bio ELSE ""]
       IN IF ok
          THEN /\ profiles' = Append(profiles, profile)
               /\ sessions' = [sessions EXCEPT ![t].pc = "created"]
          ELSE /\ sessions' = [sessions EXCEPT ![t] =
                                  Finish(@, "Exception", 500, "REGISTRATION_ERROR")]
               /\ UNCHANGED profiles
    /\ UNCHANGED <<guardVars, config, cipher_suite, senders, users, queue, registered,
                   http, calls, progressVars, unitVars>>

\* create_user returned: the event is built and published, and register answers
RegPublish(t, iv, senderOk, sendOk) ==
    /\ sessions[t].pc = "created"
    /\ LET id == sessions[t].user_id
           snd == get_sender(config, senders, senderOk)
           event == [event_type |-> "user_registered",
                     user_id |-> id,
                     user_type |-> users[id].user_type,
                     email_encrypted |-> Hex(encrypt_data(get_email(users[id]), iv))]
       IN IF snd.exc # "none"
          THEN /\ sessions' = [sessions EXCEPT ![t] =
                                  Finish(@, snd.exc, 500, "REGISTRATION_ERROR")]
               /\ UNCHANGED <<senders, queue, registered>>
          ELSE /\ senders' = snd.senders
               /\ queue' = IF sendOk THEN Append(queue, event) ELSE queue
               /\ registered' = registered \cup {id}
               /\ sessions' = [sessions EXCEPT ![t] = Finish(@, "none", 201, "CREATED")]
    /\ UNCHANGED <<guardVars, config, cipher_suite, users, profiles, http, calls, progressVars, unitVars>>

\* ------------------------------------------- progress-service/app/routes.py
Courses == {"course-101"}

\* a row of progress_tracking, known by its user and its course
ProgressRows == [user_id : 1..MaxUserId, course_id : Courses]

\* what a view returns: (jsonify(...), status), with the progress records in it
ViewResult(status, code, records) == [status |-> status, code |-> code, records |-> records]

\* GET /progress: ProgressTracking.query.filter_by(user_id=current_user_id)
get_progress_records(pg, current_user_id, dbOk) ==
    IF ~dbOk THEN ViewResult(500, "PROGRESS_RETRIEVAL_ERROR", {})
    ELSE ViewResult(200, "OK", {p \in pg : p.user_id = current_user_id})

\* GET /progress/<user_id>/<course_id>
get_user_course_progress(pg, current_user_id, user_id, course_id, dbOk) ==
    IF current_user_id # user_id THEN ViewResult(403, "UNAUTHORIZED_ACCESS", {})
    ELSE IF ~dbOk THEN ViewResult(500, "PROGRESS_DETAIL_ERROR", {})
    ELSE LET found == {p \in pg : p.user_id = user_id /\ p.course_id = course_id}
         IN IF found = {} THEN ViewResult(404, "PROGRESS_NOT_FOUND", {})
            ELSE ViewResult(200, "OK", found)

\* Flask-Caching's key of a cached view: a key_prefix without '%s' is the key
\* itself; the default 'view/%s' is filled with request.path.  Neither holds
\* the arguments of the view, so not the current_user_id.
make_cache_key(key_prefix, path) ==
    IF key_prefix = "view/%s" THEN [prefix |-> "view/", path |-> path]
    ELSE [prefix |-> key_prefix, path |-> <<>>]

CacheKeys ==
    {make_cache_key("all_progress", <<"progress">>)} \cup
    {make_cache_key("view/%s", <<"progress", u, c>>) : u \in 1..MaxUserId, c \in Courses}

NoEntry == [set |-> FALSE, at |-> 0, rv |-> ViewResult(0, "none", {})]

\* cache.get: an entry lives 300 seconds, less than one tick of the clock
CacheHit(c, key, t) == c[key].set /\ c[key].at = t

\* @cache.cached(timeout=300, ...): rv is what the view returns if it is called
cached(c, key, rv, t) ==
    IF CacheHit(c, key, t)
    THEN [rv |-> c[key].rv, cache |-> c, hit |-> TRUE]
    ELSE [rv |-> rv, cache |-> [c EXCEPT ![key] = [set |-> TRUE, at |-> t, rv |-> rv]],
          hit |-> FALSE]

\* the Authorization value of a client that holds an unexpired token of user u
TokenOf(u) ==
    [present |-> TRUE, pre |-> <<"Bearer ">>,
     tok |-> [form |-> "jwt", alg |-> "HS256", key |-> JWT_SECRET,
              claims |-> [user_id |-> u, user_type |-> "student", exp |-> MaxTime + 1]]]

Callers == {NoHeader} \cup {TokenOf(u) : u \in 1..MaxUserId}

CallerId(h) == IF h.present THEN h.tok.claims.user_id ELSE 0

NoProgressRequest ==
    [op |-> "none", caller |-> 0, user_id |-> 0, course_id |-> "", status |-> 0,
     code |-> "none", records |-> {}, hit |-> FALSE]

\* token_required around cached around the view: the guard answers by itself,
\* or calls the cached view with the user_id of the token
Guarded(op, h, user_id, course_id, key, rv) ==
    LET g == token_required(h, [pos |-> <<>>, kw |-> {}], now)
        r == cached(cache, key, rv, now)
    IN IF g.calls = <<>>
       THEN /\ presp' = [op |-> op, caller |-> CallerId(h), user_id |-> user_id,
                         course_id |-> course_id, status |-> g.status, code |-> g.code,
                         records |-> {}, hit |-> FALSE]
            /\ UNCHANGED cache
       ELSE /\ presp' = [op |-> op, caller |-> CallerId(h), user_id |-> user_id,
                         course_id |-> course_id, status |-> r.rv.status, code |-> r.rv.code,
                         records |-> r.rv.records, hit |-> r.hit]
            /\ cache' = r.cache

\* GET /progress
GetProgressRecords(h, dbOk) ==
    /\ Guarded("get_progress_records", h, 0, "",
               make_cache_key("all_progress", <<"progress">>),
               get_progress_records(progress, CallerId(h), dbOk))
    /\ UNCHANGED <<guardVars, userVars, calls, sessions, progress, unitVars>>

\* GET /progress/<user_id>/<course_id>
GetUserCourseProgress(h, user_id, course_id, dbOk) ==
    /\ Guarded("get_user_course_progress", h, user_id, course_id,
               make_cache_key("view/%s", <<"progress", user_id, course_id>>),
               get_user_course_progress(progress, CallerId(h), user_id, course_id, dbOk))
    /\ UNCHANGED <<guardVars, userVars, calls, sessions, progress, unitVars>>

\* the 300 seconds of an entry pass
CacheExpire(key) ==
    /\ cache[key].set
    /\ cache' = [cache EXCEPT ![key] = NoEntry]
    /\ UNCHANGED <<guardVars, userVars, calls, sessions, progress, presp, unitVars>>

\* ----------------------------------------- the model objects, byte by byte
\* str and bytes are sequences: a str of code points, a bytes of 0..255.
\* The code points are one of each UTF-8 length, and a lone surrogate, which
\* a str can hold (json.loads of "\ud800") and UTF-8 cannot.
CodePoints == {65, 233, 8364, 55296, 128512}

Texts == UNION {[1..n -> CodePoints] : n \in 0..MaxLen}

IsSurrogate(c) == c >= 55296 /\ c <= 57343

EncodePoint(c) ==
    IF c < 128 THEN <<c>>
    ELSE IF c < 2048 THEN <<192 + (c \div 64), 128 + (c % 64)>>
    ELSE IF c < 65536
    THEN <<224 + (c \div 4096), 128 + ((c \div 64) % 64), 128 + (c % 64)>>
    ELSE <<240 + (c \div 262144), 128 + ((c \div 4096) % 64),
           128 + ((c \div 64) % 64), 128 + (c % 64)>>

RECURSIVE EncodeAll(_)
EncodeAll(s) == IF s = <<>> THEN <<>> ELSE EncodePoint(Head(s)) \o EncodeAll(Tail(s))

\* str.encode('utf-8')
str_encode(s) ==
    IF \E i \in DOMAIN s : IsSurrogate(s[i])
    THEN [exc |-> "UnicodeEncodeError", bytes |-> <<>>]
    ELSE [exc |-> "none", bytes |-> EncodeAll(s)]

\* bytes.decode('utf-8'), strict: the lead byte h gives the length n of a
\* sequence, the continuation bytes must be 10xxxxxx, and the code point c
\* must be one that encodes to these very bytes
RECURSIVE bytes_decode(_)
bytes_decode(b) ==
    IF b = <<>> THEN [exc |-> "none", text |-> <<>>]
    ELSE LET h == Head(b)
             n == IF h < 128 THEN 1
                  ELSE IF h >= 194 /\ h < 224 THEN 2
                  ELSE IF h >= 224 /\ h < 240 THEN 3
                  ELSE IF h >= 240 /\ h < 245 THEN 4
                  ELSE 0
             c == IF n = 1 THEN h
                  ELSE IF n = 2 THEN (h - 192) * 64 + (b[2] - 128)
                  ELSE IF n = 3 THEN (h - 224) * 4096 + (b[2] - 128) * 64 + (b[3] - 128)
                  ELSE (h - 240) * 262144 + (b[2] - 128) * 4096 + (b[3] - 128) * 64
                       + (b[4] - 128)
             bad == [exc |-> "UnicodeDecodeError", text |-> <<>>]
         IN IF n = 0 \/ Len(b) < n THEN bad
            ELSE IF \E i \in 2..n : b[i] \div 64 # 2 THEN bad
            ELSE IF IsSurrogate(c) \/ c > 1114111 \/ EncodePoint(c) # SubSeq(b, 1, n) THEN bad
            ELSE LET rest == bytes_decode(SubSeq(b, n + 1, Len(b)))
                 IN IF rest.exc # "none" THEN bad
                    ELSE [exc |-> "none", text |-> <<c>> \o rest.text]

\* a column holding NULL; one holding a Fernet token has null FALSE
NullColumn == [null |-> TRUE, token |-> [pt |-> <<>>, iv |-> 0]]

NoText == [some |-> FALSE, text |-> <<>>]

Some(t) == [some |-> TRUE, text |-> t]

\* encrypt_data over code points: the cipher handle first, then the encoding,
\* then Fernet.encrypt, which seals the bytes with a random IV
encrypt_str_Lossy(data, iv) ==
    LET e == str_encode(data)
    IN IF e.exc # "none" THEN [exc |-> e.exc, token |-> NullColumn.token]
       ELSE [exc |-> "none", token |-> encrypt_data(SubSeq(e.bytes, 1, Len(data)), iv)]

encrypt_str(data, iv) ==
    LET e == str_encode(data)
    IN IF e.exc # "none" THEN [exc |-> e.exc, token |-> NullColumn.token]
       ELSE [exc |-> "none", token |-> encrypt_data(e.bytes, iv)]

\* decrypt_data of a column: Fernet.decrypt(None) raises TypeError; the bytes
\* of a token are decoded
decrypt_column(col) ==
    IF col.null THEN [exc |-> "TypeError", text |-> <<>>]
    ELSE bytes_decode(decrypt_data(col.token))

\* the PII fields: email of User, the others of UserProfile
PIIFields == {"email", "first_name", "last_name", "phone"}

\* User.set_email assigns whatever encrypt_data returns
set_email(col, email, iv) ==
    LET e == encrypt_str(email, iv)
    IN IF e.exc # "none" THEN [exc |-> e.exc, column |-> col]
       ELSE [exc |-> "none", column |-> [null |-> FALSE, token |-> e.token]]

\* User.get_email decrypts the column, whatever it holds
User_get_email(col) ==
    LET d == decrypt_column(col)
    IN [exc |-> d.exc, ret |-> IF d.exc = "none" THEN Some(d.text) ELSE NoText, decrypts |-> 1]

\* UserProfile.set_first_name, set_last_name, set_phone: only a truthy value
\* is stored
set_profile_field(col, value, iv) ==
    IF value = <<>> THEN [exc |-> "none", column |-> col]
    ELSE set_email(col, value, iv)

\* UserProfile.get_first_name, get_last_name, get_phone: None for a falsy column
get_profile_field(col) ==
    IF col.null THEN [exc |-> "none", ret |-> NoText, decrypts |-> 0]
    ELSE User_get_email(col)

\* bcrypt reads at most this many bytes of a password
BCRYPT_MAX_BYTES == 72

\* what the installed bcrypt does with a longer password: releases before 5.0
\* hash its first BCRYPT_MAX_BYTES bytes, later ones raise ValueError; the
\* service pins no release
BcryptReleases == {"truncating", "raising"}

NullHash == [null |-> TRUE, salt |-> 0, digest |-> <<>>]

\* bcrypt.hashpw(pw, salt): the digest is a one-way image of the salt and of
\* the bytes that bcrypt reads
bcrypt_hashpw(pw, salt, lib) ==
    IF Len(pw) > BCRYPT_MAX_BYTES /\ lib = "raising"
    THEN [exc |-> "ValueError", hash |-> NullHash]
    ELSE [exc |-> "none",
          hash |-> [null |-> FALSE, salt |-> salt,
                    digest |-> SubSeq(pw, 1, IF Len(pw) < BCRYPT_MAX_BYTES THEN Len(pw)
                                             ELSE BCRYPT_MAX_BYTES)]]

\* bcrypt.checkpw(pw, hash): hashes pw under the salt of hash and compares
bcrypt_checkpw(pw, hash, lib) ==
    LET h == bcrypt_hashpw(pw, hash.salt, lib)
    IN [exc |-> h.exc, flag |-> h.exc = "none" /\ h.hash = hash]

\* User.set_password
User_set_password(old, password, salt, lib) ==
    LET e == str_encode(password)
        h == bcrypt_hashpw(e.bytes, salt, lib)
    IN IF e.exc # "none" THEN [exc |-> e.exc, hash |-> old]
       ELSE IF h.exc # "none" THEN [exc |-> h.exc, hash |-> old]
       ELSE [exc |-> "none", hash |-> h.hash]

\* User.check_password: both arguments of checkpw are encoded before the call
User_check_password(hash, password, lib) ==
    LET e == str_encode(password)
    IN IF e.exc # "none" THEN [exc |-> e.exc, flag |-> FALSE]
       ELSE IF hash.null THEN [exc |-> "AttributeError", flag |-> FALSE]
       ELSE bcrypt_checkpw(e.bytes, hash, lib)

\* the passwords tried: two short ones, and two that differ only after their
\* first BCRYPT_MAX_BYTES bytes
Passwords ==
    LET LongPrefix == [i \in 1..BCRYPT_MAX_BYTES |-> 97]
    IN {<<112>>, <<113>>, LongPrefix \o <<49>>, LongPrefix \o <<50>>}

NoCall == [op |-> "new", arg |-> <<>>, exc |-> "none", ret |-> NoText, flag |-> FALSE,
           decrypts |-> 0]

\* a new object: target is the attribute the calls are about, column its
\* encrypted column, given the value most recently stored through its setter
NoObject == [target |-> "none", lib |-> "none", column |-> NullColumn,
             password_hash |-> NullHash, given |-> NoText, prev_hash |-> NullHash,
             prev_given |-> NoText, hashes |-> 0, last |-> NoCall]

Call(op, arg, exc, ret, flag, decrypts) ==
    [op |-> op, arg |-> arg, exc |-> exc, ret |-> ret, flag |-> flag, decrypts |-> decrypts]

\* obj.set_email(value) or the setter of a profile field
CallSetter(value, iv) ==
    /\ obj.target \in PIIFields
    /\ LET r == IF obj.target = "email" THEN set_email(obj.column, value, iv)
                ELSE set_profile_field(obj.column, value, iv)
           ciphered == obj.target = "email" \/ value # <<>>
       IN /\ obj' = [obj EXCEPT !.column = r.column,
                                !.given = IF ciphered /\ r.exc = "none" THEN Some(value) ELSE @,
                                !.last = Call("set", value, r.exc, NoText, FALSE, 0)]
          /\ cipher_suite' = IF ciphered THEN _get_cipher_suite(config, cipher_suite).cs
                             ELSE cipher_suite
    /\ UNCHANGED <<guardVars, config, senders, users, profiles, queue, registered, http,
                   calls, sessions, progressVars, bus>>

\* obj.get_email() or the getter of a profile field
CallGetter ==
    /\ obj.target \in PIIFields
    /\ LET r == IF obj.target = "email" THEN User_get_email(obj.column)
                ELSE get_profile_field(obj.column)
       IN /\ obj' = [obj EXCEPT !.last = Call("get", <<>>, r.exc, r.ret, FALSE, r.decrypts)]
          /\ cipher_suite' = IF r.decrypts > 0 THEN _get_cipher_suite(config, cipher_suite).cs
                             ELSE cipher_suite
    /\ UNCHANGED <<guardVars, config, senders, users, profiles, queue, registered, http,
                   calls, sessions, progressVars, bus>>

\* obj.set_password(password); gensalt() returns a salt it has not returned
\* before (collisions of its 128 random bits are left out)
CallSetPassword(password) ==
    /\ obj.target = "password"
    /\ obj.hashes < MaxHashes
    /\ LET r == User_set_password(obj.password_hash, password, obj.hashes + 1, obj.lib)
       IN obj' = [obj EXCEPT !.password_hash = r.hash,
                             !.hashes = @ + 1,
                             !.given = IF r.exc = "none" THEN Some(password) ELSE @,
                             !.prev_hash = obj.password_hash,
                             !.prev_given = obj.given,
                             !.last = Call("set_password", password, r.exc, NoText, FALSE, 0)]
    /\ UNCHANGED <<guardVars, userVars, calls, sessions, progressVars, bus>>

\* obj.check_password(q)
CallCheckPassword(q) ==
    /\ obj.target = "password"
    /\ LET r == User_check_password(obj.password_hash, q, obj.lib)
       IN obj' = [obj EXCEPT !.last = Call("check_password", q, r.exc, NoText, r.flag, 0)]
    /\ UNCHANGED <<guardVars, userVars, calls, sessions, progressVars, bus>>

\* ------------------------------------------- shared/message_queue.py: consumer
\* one delivery: the body, whether the callback ran, and the settlement calls
\* made on the message, in order
NoDelivery == [delivered |-> FALSE, body |-> <<>>, callback |-> "not called", settled |-> <<>>]

\* the queue before any consumer runs; dead is the set of the bodies that
\* were moved to the dead-letter queue
NoBus == [pending |-> <<>>, dead |-> {}, running |-> FALSE, last |-> NoDelivery]

\* message bodies: '{}', '[]', '{' (no JSON) and the byte 0xFF (no UTF-8)
Bodies == {<<123, 125>>, <<91, 93>>, <<123>>, <<255>>}

\* json.loads of the decoded body: the kind of the value, or JSONDecodeError
json_loads(text) ==
    IF text = <<123, 125>> THEN [exc |-> "none", kind |-> "dict"]
    ELSE IF text = <<91, 93>> THEN [exc |-> "none", kind |-> "list"]
    ELSE [exc |-> "JSONDecodeError", kind |-> "none"]

\* a publisher sends a message to 'user-service-incoming-events'
Enqueue(body) ==
    /\ Len(bus.pending) < MaxQueue
    /\ bus' = [bus EXCEPT !.pending = Append(@, body)]
    /\ UNCHANGED <<guardVars, userVars, calls, sessions, progressVars, obj>>

\* flask consume-incoming-events: consume_messages gets its receiver and
\* enters the loop; get_receiver raises without a connection string
StartConsumer ==
    /\ ~bus.running
    /\ bus' = [bus EXCEPT !.running = config.AZURE_SERVICE_BUS_CONNECTION_STRING,
                          !.last = NoDelivery]
    /\ UNCHANGED <<guardVars, userVars, calls, sessions, progressVars, obj>>

\* one turn of `for msg in receiver`: the body of the loop for the message at
\* the head of the queue.  raises: the callback raises; ok1, ok2: the first
\* and the second settlement call reach the broker (a settlement call raises
\* otherwise, for instance when the lock of the message was lost).  An
\* abandoned message stays at the head; one whose settlement failed stays
\* locked and is delivered again.  An exception that leaves an except clause
\* ends the loop.
Deliver(raises, ok1, ok2) ==
    /\ bus.running
    /\ bus.pending # <<>>
    /\ LET body == Head(bus.pending)
           d == bytes_decode(body)
           j == json_loads(d.text)
           called == d.exc = "none" /\ j.exc = "none" /\ j.kind = "dict"
           callback == IF ~called THEN "not called"
                       ELSE IF raises THEN "raised" ELSE "returned"
           first == IF callback = "returned" THEN "complete"
                    ELSE IF d.exc = "none" /\ j.exc # "none" THEN "dead_letter"
                    ELSE "abandon"
           settled == IF first = "complete" /\ ~ok1
                      THEN <<[call |-> "complete", ok |-> FALSE], [call |-> "abandon", ok |-> ok2]>>
                      ELSE <<[call |-> first, ok |-> ok1]>>
           final == settled[Len(settled)]
       IN bus' = [bus EXCEPT
                     !.pending = IF final.ok /\ final.call # "abandon" THEN Tail(@) ELSE @,
                     !.dead = IF final.ok /\ final.call = "dead_letter" THEN @ \cup {body} ELSE @,
                     !.running = final.ok,
                     !.last = [delivered |-> TRUE, body |-> body, callback |-> callback,
                               settled |-> settled]]
    /\ UNCHANGED <<guardVars, userVars, calls, sessions, progressVars, obj>>

\* ------------------------------------------------------------ specifications
NoRequest == [op |-> "none", email |-> "", password |-> "", status |-> 0, code |-> "none",
              error |-> "", dup |-> FALSE, rows |-> 0, prows |-> 0, token |-> EmptyToken,
              log |-> [event |-> "", values |-> {}]]

Configs == [ENCRYPTION_KEY : {"absent", "invalid", "valid"},
            AZURE_SERVICE_BUS_CONNECTION_STRING : BOOLEAN]

InitUser ==
    /\ now = 0
    /\ req = Idle
    /\ config \in Configs
    /\ cipher_suite = "None"
    /\ senders = FALSE
    /\ users = <<>>
    /\ profiles = <<>>
    /\ queue = <<>>
    /\ registered = {}
    /\ http = NoRequest
    /\ calls = NoCalls
    /\ sessions = [t \in Threads |-> NoSession]
    /\ progress = {}
    /\ cache = [k \in CacheKeys |-> NoEntry]
    /\ presp = NoProgressRequest
    /\ obj = NoObject
    /\ bus = NoBus

\* the guards alone, in a service whose JWT_SECRET is configured, under every
\* Authorization value
Init ==
    /\ InitUser
    /\ config = [ENCRYPTION_KEY |-> "valid", AZURE_SERVICE_BUS_CONNECTION_STRING |-> TRUE]

Next ==
    \/ \E g \in Guards, h \in Headers, a \in CallerArgs : GuardRequest(g, h, a)
    \/ Tick

Spec == Init /\ [][Next]_vars

\* what a request draws at random or meets outside: the IV of each encryption
\* it makes, the salt, and whether the Service Bus lets a sender be created
\* and a message be sent
WellFormed(body) ==
    /\ body.json
    /\ {"email", "password", "user_type"} \subseteq DOMAIN body.data
    /\ body.data.user_type \in {"student", "instructor"}

Draws(body) ==
    IF WellFormed(body)
    THEN [lookup : IVs, email : IVs, event : IVs,
          first_name : IVsFor(body.data, "first_name"),
          last_name : IVsFor(body.data, "last_name"),
          phone : IVsFor(body.data, "phone")]
    ELSE {[lookup |-> 0, email |-> 0, event |-> 0, first_name |-> 0, last_name |-> 0, phone |-> 0]}

\* the user service, with a client that presents the tokens it is given
NextUser ==
    \/ \E body \in RegisterBodies :
         \E ivs \in Draws(body), salt \in Salts,
            senderOk \in (IF WellFormed(body) /\ ~senders THEN BOOLEAN ELSE {TRUE}),
            sendOk \in (IF WellFormed(body) THEN BOOLEAN ELSE {TRUE}) :
            Register(body, ivs, salt, senderOk, sendOk)
    \/ \E body \in LoginBodies, iv \in IVs : Login(body, iv)
    \/ Whoami

SpecUser == InitUser /\ [][NextUser]_vars

\* ============================================================== properties
\* Vocabulary of the claims, stated on the presented Authorization value
\* itself (not through jwt_decode).
ErrorCodes == {"TOKEN_MISSING", "TOKEN_EXPIRED", "TOKEN_INVALID",
               "TOKEN_PROCESSING_ERROR", "FORBIDDEN_ACCESS"}

Served == req.guard # "none"

\* the value is a JWT, bare or behind one 'Bearer ', signed HS256 with JWT_SECRET
CorrectlySigned(h) ==
    /\ h.present
    /\ h.pre \in {<<>>, <<"Bearer ">>}
    /\ h.tok.form = "jwt" /\ h.tok.alg = "HS256" /\ h.tok.key = JWT_SECRET

HasClaim(h, c) == c \in DOMAIN h.tok.claims

ExpiredAt(h, t) == HasClaim(h, "exp") /\ h.tok.claims.exp <= t

IsInstructor(h) == HasClaim(h, "user_type") /\ h.tok.claims.user_type = "instructor"

RoleOk(g, h) == g = "instructor_required" => IsInstructor(h)

\* C1: the wrapped operation is invoked at most once per request, and only
\* for a present, correctly signed, unexpired token (of an instructor when the
\* guard is instructor_required); every rejection carries its status (401, or
\* 403 for FORBIDDEN_ACCESS) and is returned with no call of the operation.
C1_GuardGatesOperation ==
    Served =>
        /\ Len(req.out.calls) <= 1
        /\ Len(req.out.calls) = 1 =>
              /\ CorrectlySigned(req.header)
              /\ ~ExpiredAt(req.header, req.at)
              /\ RoleOk(req.guard, req.header)
        /\ req.out.code \in ErrorCodes =>
              /\ req.out.calls = <<>>
              /\ req.out.status = IF req.out.code = "FORBIDDEN_ACCESS" THEN 403 ELSE 401
        /\ req.out.calls = <<>> => req.out.code \in ErrorCodes

C1_Witness ==
    /\ Served /\ req.guard = "instructor_required"
    /\ Len(req.out.calls) = 1 /\ req.header.pre = <<"Bearer ">>

\* C2: signature before expiry: a presented value that is not a correctly
\* signed JWT is answered TOKEN_INVALID whatever its exp claim, and
\* TOKEN_EXPIRED is answered only to correctly signed tokens.
C2_SignatureBeforeExpiry ==
    Served =>
        /\ (Truthy(req.header) /\ ~CorrectlySigned(req.header))
              => (req.out.code = "TOKEN_INVALID" /\ req.out.status = 401)
        /\ req.out.code = "TOKEN_EXPIRED" => CorrectlySigned(req.header)

C2_Witness ==
    /\ Served /\ req.header.tok.form = "jwt" /\ req.header.tok.key = OtherSecret
    /\ ExpiredAt(req.header, req.at)
    /\ req.out.code = "TOKEN_INVALID"

\* two Authorization values that differ at most in the user_type claim
SameButUserType(h1, h2) ==
    /\ h1.present = h2.present /\ h1.pre = h2.pre
    /\ h1.tok.form = h2.tok.form /\ h1.tok.alg = h2.tok.alg /\ h1.tok.key = h2.tok.key
    /\ DOMAIN h1.tok.claims \ {"user_type"} = DOMAIN h2.tok.claims \ {"user_type"}
    /\ \A c \in DOMAIN h1.tok.claims \ {"user_type"} : h1.tok.claims[c] = h2.tok.claims[c]

InvalidAt(h, t) == ~CorrectlySigned(h) \/ ExpiredAt(h, t)

\* C3: instructor_required answers FORBIDDEN_ACCESS only to a correctly signed,
\* unexpired token, and its answer to an invalid token is the same as its answer
\* to every token that differs from it only in user_type.
C3_RoleCheckAfterVerification ==
    (Served /\ req.guard = "instructor_required") =>
        /\ req.out.code = "FORBIDDEN_ACCESS" => ~InvalidAt(req.header, req.at)
        /\ InvalidAt(req.header, req.at) =>
              \A h2 \in Headers :
                  SameButUserType(req.header, h2) =>
                      instructor_required(h2, req.args, req.at) = req.out

C3_Witness ==
    /\ Served /\ req.guard = "instructor_required"
    /\ CorrectlySigned(req.header) /\ ExpiredAt(req.header, req.at)
    /\ HasClaim(req.header, "user_type") /\ req.header.tok.claims.user_type = "student"
    /\ req.out.code = "TOKEN_EXPIRED"

\* C4: exact role match: instructor_required answers 403 FORBIDDEN_ACCESS, with
\* no call of the operation, to every correctly signed unexpired token whose
\* user_type is not exactly 'instructor'; token_required accepts such a token
\* (one carrying the user_id claim) whatever its user_type.
C4_ExactRoleMatch ==
    (Served /\ CorrectlySigned(req.header) /\ ~ExpiredAt(req.header, req.at)) =>
        /\ (req.guard = "instructor_required" /\ ~IsInstructor(req.header)) =>
              /\ req.out.code = "FORBIDDEN_ACCESS" /\ req.out.status = 403
              /\ req.out.calls = <<>>
        /\ (req.guard = "token_required" /\ HasClaim(req.header, "user_id")) =>
              /\ Len(req.out.calls) = 1 /\ req.out.code \notin ErrorCodes

C4_Witness ==
    /\ Served /\ req.guard = "instructor_required"
    /\ CorrectlySigned(req.header) /\ ~ExpiredAt(req.header, req.at)
    /\ HasClaim(req.header, "user_type") /\ req.header.tok.claims.user_type = "student"
    /\ req.out.code = "FORBIDDEN_ACCESS"

\* C5: expiry is enforced at every invocation against the clock of that
\* invocation: a correctly signed token is answered TOKEN_EXPIRED exactly when
\* exp <= now, also when the same value was accepted by the request before.
C5_ExpiryEveryInvocation ==
    (Served /\ CorrectlySigned(req.header)) =>
        /\ (req.out.code = "TOKEN_EXPIRED" /\ req.out.status = 401)
              <=> ExpiredAt(req.header, req.at)
        /\ req.out.code = "TOKEN_EXPIRED" => req.out.calls = <<>>
        /\ (req.replay /\ ExpiredAt(req.header, req.at)) =>
              (req.out.code = "TOKEN_EXPIRED" /\ req.out.calls = <<>>)

C5_Witness ==
    /\ Served /\ req.replay /\ CorrectlySigned(req.header)
    /\ HasClaim(req.header, "exp") /\ req.header.tok.claims.exp = req.at
    /\ req.out.code = "TOKEN_EXPIRED"

\* C6: a request with no Authorization value (no header, or an empty one) is
\* answered 401 TOKEN_MISSING with no call of jwt.decode and none of the
\* wrapped operation.
C6_MissingToken ==
    (Served /\ ~Truthy(req.header)) =>
        /\ req.out.code = "TOKEN_MISSING" /\ req.out.status = 401
        /\ req.out.decodes = 0
        /\ req.out.calls = <<>>

C6_Witness ==
    /\ Served /\ ~req.header.present /\ req.guard = "instructor_required"
    /\ req.out.code = "TOKEN_MISSING"

\* C7 as stated: every correctly signed, unexpired token (of an instructor for
\* instructor_required) gets the wrapped operation run and no error code.
C7_Original ==
    (Served /\ CorrectlySigned(req.header) /\ ~ExpiredAt(req.header, req.at)
            /\ RoleOk(req.guard, req.header)) =>
        (Len(req.out.calls) = 1 /\ req.out.code \notin ErrorCodes)

\* C7 (amended): every correctly signed, unexpired token that carries a user_id
\* claim (and user_type 'instructor' for instructor_required) gets the wrapped
\* operation run and none of the five error codes; without the user_id claim
\* the answer is 401 TOKEN_PROCESSING_ERROR.
C7_AuthorizedWithUserId ==
    (Served /\ CorrectlySigned(req.header) /\ ~ExpiredAt(req.header, req.at)
            /\ RoleOk(req.guard, req.header)) =>
        IF HasClaim(req.header, "user_id")
        THEN Len(req.out.calls) = 1 /\ req.out.code \notin ErrorCodes
        ELSE req.out.code = "TOKEN_PROCESSING_ERROR" /\ req.out.status = 401
             /\ req.out.calls = <<>>

C7_Witness ==
    /\ Served /\ req.guard = "instructor_required"
    /\ CorrectlySigned(req.header) /\ IsInstructor(req.header)
    /\ HasClaim(req.header, "exp") /\ req.header.tok.claims.exp = req.at + 1
    /\ Len(req.out.calls) = 1

\* C8: whenever the wrapped operation is invoked, its first argument is the
\* user_id claim of the presented token and the caller's positional and
\* keyword arguments follow unchanged.
C8_UserIdFirstArgument ==
    (Served /\ Len(req.out.calls) > 0) =>
        /\ HasClaim(req.header, "user_id")
        /\ req.out.calls[1].pos = <<req.header.tok.claims.user_id>> \o req.args.pos
        /\ req.out.calls[1].kw = req.args.kw

C8_Witness ==
    /\ Served /\ Len(req.out.calls) = 1
    /\ req.args.pos # <<>> /\ req.args.kw # {}
    /\ req.out.calls[1].pos[1] = 2

\* C9 as stated: once registration of (e, p) was answered 201, a login with
\* (e, p) on that active identity is answered with a token, and a
\* token_required view called with that token receives the id of an identity
\* registered with (e, p).
C9_RegisterLoginWhoami ==
    LET Owners == {i \in registered : /\ users[i].is_active
                                      /\ get_email(users[i]) = http.email
                                      /\ check_password(users[i], http.password)}
    IN /\ (http.op = "login" /\ Owners # {}) =>
             (http.status = 200 /\ http.token # EmptyToken)
       /\ (http.op = "login" /\ http.status = 200 /\ Served /\ req.header.tok = http.token) =>
             (Len(req.out.calls) = 1 /\ req.out.calls[1].pos[1] \in Owners)

\* C10 as stated: create_user called with the email of a stored identity
\* raises ValueError, so that register answers 400
\* REGISTRATION_VALIDATION_ERROR and no identity and no profile is stored.
C10_DuplicateEmailRejected ==
    (http.op = "register" /\ http.dup) =>
        /\ http.status = 400 /\ http.code = "REGISTRATION_VALIDATION_ERROR"
        /\ Len(users) = http.rows
        /\ Len(profiles) = http.prows

\* C11 as stated: in every state of the user store no two stored identities
\* have the same plaintext email (a commit of a second identity with the email
\* of a stored one fails on the unique constraint of email_encrypted).
C11_EmailUniqueness ==
    \A i, j \in 1..Len(users) :
        get_email(users[i]) = get_email(users[j]) => i = j

\* ------------------------------------------------ the login path alone
\* A row of the users table as an earlier run of the service, or a direct
\* write to the table, left it: the columns of User, with is_active either way.
StoredUser(id, email, active) ==
    [id |-> id,
     email_encrypted |-> encrypt_data(email, 1),
     password_hash |-> hashpw("Secret123", 1),
     user_type |-> IF email = "b@example.com" THEN "instructor" ELSE "student",
     is_active |-> active]

StoredEmails == {"a@example.com", "b@example.com"}

\* the tables the service can find at start: ids in order, no ciphertext twice
StoredTables ==
    UNION { { us \in [1..n -> [id : 1..n, email_encrypted : {encrypt_data(e, 1) : e \in StoredEmails},
                                password_hash : {hashpw("Secret123", 1)},
                                user_type : UserTypes, is_active : BOOLEAN]] :
                /\ \A i \in 1..n : us[i] = StoredUser(i, get_email(us[i]), us[i].is_active)
                /\ \A i, j \in 1..n : us[i].email_encrypted = us[j].email_encrypted => i = j }
            : n \in 0..MaxUsers }

InitAuth ==
    /\ now = 0
    /\ req = Idle
    /\ config \in Configs
    /\ cipher_suite = "None"
    /\ senders = FALSE
    /\ users \in StoredTables
    /\ profiles = <<>>
    /\ queue = <<>>
    /\ registered = {}
    /\ http = NoRequest
    /\ calls = NoCalls
    /\ sessions = [t \in Threads |-> NoSession]
    /\ progress = {}
    /\ cache = [k \in CacheKeys |-> NoEntry]
    /\ presp = NoProgressRequest
    /\ obj = NoObject
    /\ bus = NoBus

NextAuth ==
    \/ \E body \in LoginBodies, iv \in IVs : Login(body, iv)
    \/ Tick

SpecAuth == InitAuth /\ [][NextAuth]_vars

\* which of the cases of a login (email, password) the table makes
LoginCase(us, email, password) ==
    LET same == {i \in 1..Len(us) : get_email(us[i]) = email}
        ok == {i \in same : check_password(us[i], password)}
    IN IF same = {} THEN "unregistered"
       ELSE IF ok = {} THEN "wrong_password"
       ELSE IF \A i \in ok : ~us[i].is_active THEN "inactive"
       ELSE "valid"

WellFormedLogin == http.op = "login" /\ http.email # "" /\ http.password # ""

\* C12: a well-formed login whose email is not registered, whose password is
\* wrong or whose account is inactive gets no token and one and the same
\* answer, 401 INVALID_CREDENTIALS 'Invalid credentials', whenever
\* authenticate_user returns (the service holds a usable key); where it cannot
\* return, the answer is 500 LOGIN_ERROR in all three cases alike.
C12_FailuresIndistinguishable ==
    (WellFormedLogin /\ LoginCase(users, http.email, http.password) # "valid") =>
        /\ http.token = EmptyToken
        /\ IF config.ENCRYPTION_KEY = "valid"
           THEN /\ http.status = 401 /\ http.code = "INVALID_CREDENTIALS"
                /\ http.error = "Invalid credentials"
           ELSE /\ http.status = 500 /\ http.code = "LOGIN_ERROR"
                /\ http.error = "Internal server error"

C12_Witness ==
    /\ WellFormedLogin /\ config.ENCRYPTION_KEY = "valid"
    /\ LoginCase(users, http.email, http.password) = "wrong_password"
    /\ http.status = 401 /\ http.error = "Invalid credentials"

\* C13: a token that a login returns names an identity that is active at the
\* time of the call, and no login is answered with a token when every identity
\* that has the presented email and password is inactive.
C13_InactiveNeverAuthenticated ==
    /\ (http.op = "login" /\ http.token # EmptyToken) =>
           users[http.token.claims.user_id].is_active
    /\ (WellFormedLogin /\ LoginCase(users, http.email, http.password) = "inactive") =>
           (http.token = EmptyToken /\ http.status # 200)

C13_Witness ==
    /\ WellFormedLogin /\ config.ENCRYPTION_KEY = "valid"
    /\ LoginCase(users, http.email, http.password) = "inactive"
    /\ http.status = 401 /\ http.token = EmptyToken

\* C14 as stated: the log record of a register or login request, successful
\* or failed, contains neither the plaintext email nor the plaintext password
\* of the request.
C14_NoPlaintextInLogs ==
    (http.op \in {"register", "login"}) =>
        /\ http.email # "" => http.email \notin http.log.values
        /\ http.password # "" => http.password \notin http.log.values

\* ------------------------------------- a service started without the key
\* ENCRYPTION_KEY is None in the configuration; the tables hold what an
\* earlier run left.
InitNoKey ==
    /\ InitAuth
    /\ config.ENCRYPTION_KEY = "absent"

NextNoKey ==
    \/ \E body \in RegisterBodies :
         \E ivs \in Draws(body), salt \in Salts,
            senderOk \in (IF WellFormed(body) /\ ~senders THEN BOOLEAN ELSE {TRUE}),
            sendOk \in (IF WellFormed(body) THEN BOOLEAN ELSE {TRUE}) :
            Register(body, ivs, salt, senderOk, sendOk)
    \/ \E body \in LoginBodies, iv \in IVs : Login(body, iv)
    \/ Tick

SpecNoKey == InitNoKey /\ [][NextNoKey]_vars

\* the codes of the answers given before any encryption is attempted
ValidationCodes == {"INVALID_JSON_FORMAT", "INVALID_JSON", "MISSING_FIELDS",
                    "INVALID_USER_TYPE", "MISSING_CREDENTIALS"}

C16_NoRequestWithoutSecrets ==
    http.op # "none" => config.ENCRYPTION_KEY # "absent"

\* ------------------------------------ concurrent first use of the cipher
NextCipher ==
    \E t \in Threads :
        \/ CallCipher(t)
        \/ TestNone(t)
        \/ ReadKey(t)
        \/ BuildFernet(t)
        \/ AssignCipher(t)
        \/ LeaveCipher(t)

SpecCipher == InitUser /\ [][NextCipher]_vars

\* C17 as stated: under every interleaving of concurrent calls the Fernet
\* handle is constructed at most once and _cipher_suite is assigned at most
\* once.
C17_SingleInitialization ==
    calls.built <= 1 /\ calls.assigned <= 1

\* ------------------------------------------- registrations that interleave
NextRace ==
    \E t \in Threads :
        \/ \E body \in RaceBodies, iv \in IVs : RegCheck(t, body, iv)
        \/ \E iv \in IVs, salt \in Salts : RegCommitUser(t, iv, salt)
        \/ \E ivs \in Draws(sessions[t].body), ok \in BOOLEAN : RegCommitProfile(t, ivs, ok)
        \/ \E iv \in IVs, senderOk \in BOOLEAN, sendOk \in BOOLEAN :
              RegPublish(t, iv, senderOk, sendOk)

SpecRace == InitUser /\ [][NextRace]_vars

\* two requests of different threads for one email, both past the existence
\* check at a time when no identity with that email was stored
Raced(t1, t2) ==
    /\ t1 # t2
    /\ sessions[t1].pc # "idle" /\ sessions[t2].pc # "idle"
    /\ sessions[t1].fresh /\ sessions[t2].fresh
    /\ sessions[t1].body.data.email = sessions[t2].body.data.email

\* C18 as stated: when two registrations of one email both pass the existence
\* check before either commits, at most one of them stores an identity, and
\* the other, once answered, is answered 400 REGISTRATION_VALIDATION_ERROR and
\* not 500 REGISTRATION_ERROR.
C18_RaceLoserAlreadyExists ==
    \A t1, t2 \in Threads :
        (Raced(t1, t2) /\ sessions[t1].user_id # 0) =>
            /\ sessions[t2].user_id = 0
            /\ sessions[t2].pc = "done" =>
                  (sessions[t2].status = 400 /\ sessions[t2].code = "REGISTRATION_VALIDATION_ERROR")

\* C19 as stated: once create_user has ended, by return or by exception, for
\* a request with profile fields, the identity of the request is stored only
\* together with its profile.
C19_IdentityAndProfileTogether ==
    \A t \in Threads :
        (/\ sessions[t].pc \in {"created", "done"}
         /\ DOMAIN sessions[t].body.data \cap ProfileKeys # {}
         /\ sessions[t].user_id # 0) =>
            \E i \in 1..Len(profiles) : profiles[i].user_id = sessions[t].user_id

\* --------------------------------------------- the progress service's reads
InitProgress ==
    /\ now = 0
    /\ req = Idle
    /\ config = [ENCRYPTION_KEY |-> "valid", AZURE_SERVICE_BUS_CONNECTION_STRING |-> TRUE]
    /\ cipher_suite = "None"
    /\ senders = FALSE
    /\ users = <<>>
    /\ profiles = <<>>
    /\ queue = <<>>
    /\ registered = {}
    /\ http = NoRequest
    /\ calls = NoCalls
    /\ sessions = [t \in Threads |-> NoSession]
    /\ progress \in SUBSET ProgressRows
    /\ cache = [k \in CacheKeys |-> NoEntry]
    /\ presp = NoProgressRequest
    /\ obj = NoObject
    /\ bus = NoBus

NextProgress ==
    \/ \E h \in Callers, dbOk \in BOOLEAN : GetProgressRecords(h, dbOk)
    \/ \E h \in Callers, u \in 1..MaxUserId, c \in Courses, dbOk \in BOOLEAN :
          GetUserCourseProgress(h, u, c, dbOk)
    \/ \E key \in CacheKeys : CacheExpire(key)
    \/ Tick

SpecProgress == InitProgress /\ [][NextProgress]_vars

\* C20 as stated: GET /progress/<user_id>/<course_id> by an authenticated
\* caller other than user_id is answered 403 UNAUTHORIZED_ACCESS, and every
\* progress record in a response belongs to the caller of the request.
C20_PerUserIsolation ==
    /\ (presp.op = "get_user_course_progress" /\ presp.caller # 0
                                               /\ presp.caller # presp.user_id) =>
           (presp.status = 403 /\ presp.code = "UNAUTHORIZED_ACCESS")
    /\ \A p \in presp.records : p.user_id = presp.caller

\* ------------------------------------- tokens that outlive their identity
\* a direct write to the users table sets is_active of a stored identity to
\* false (no route of the service does)
Deactivate(i) ==
    /\ i \in 1..Len(users)
    /\ users[i].is_active
    /\ users' = [users EXCEPT ![i].is_active = FALSE]
    /\ UNCHANGED <<guardVars, config, cipher_suite, senders, profiles, queue, registered,
                   http, stepVars>>

\* the client that logged in presents the token of the login response to a
\* view behind guard g
PresentToken(g) ==
    /\ http.op = "login" /\ http.status = 200
    /\ GuardRequest(g, [present |-> TRUE, pre |-> <<"Bearer ">>, tok |-> http.token],
                    [pos |-> <<>>, kw |-> {}])

InitRevoke ==
    /\ InitAuth
    /\ config = [ENCRYPTION_KEY |-> "valid", AZURE_SERVICE_BUS_CONNECTION_STRING |-> TRUE]

NextRevoke ==
    \/ \E body \in LoginBodies, iv \in IVs : Login(body, iv)
    \/ \E i \in 1..MaxUsers : Deactivate(i)
    \/ \E g \in Guards : PresentToken(g)
    \/ Tick

SpecRevoke == InitRevoke /\ [][NextRevoke]_vars

\* the last guarded request presented the token of the last login response
PresentedIssued ==
    /\ Served /\ http.op = "login" /\ http.status = 200
    /\ req.header = [present |-> TRUE, pre |-> <<"Bearer ">>, tok |-> http.token]

\* C21: a token issued by a login is accepted by token_required, and by
\* instructor_required when its user_type is 'instructor', at every
\* invocation before its exp, whatever the users table holds at that time
\* (its identity may have been deactivated since); the operation receives the
\* user_id of the token.
C21_NoRevocation ==
    (PresentedIssued /\ ~ExpiredAt(req.header, req.at)) =>
        IF RoleOk(req.guard, req.header)
        THEN /\ Len(req.out.calls) = 1
             /\ req.out.calls[1].pos[1] = http.token.claims.user_id
             /\ req.out.code \notin ErrorCodes
        ELSE req.out.code = "FORBIDDEN_ACCESS"

C21_Witness ==
    /\ PresentedIssued /\ req.guard = "instructor_required"
    /\ Len(req.out.calls) = 1
    /\ ~users[http.token.claims.user_id].is_active

\* --------------------------------------------------- the model objects alone
\* a new User or UserProfile in an application whose key is configured; the
\* calls are about one of its attributes
InitModels ==
    /\ now = 0
    /\ req = Idle
    /\ config = [ENCRYPTION_KEY |-> "valid", AZURE_SERVICE_BUS_CONNECTION_STRING |-> TRUE]
    /\ cipher_suite = "None"
    /\ senders = FALSE
    /\ users = <<>>
    /\ profiles = <<>>
    /\ queue = <<>>
    /\ registered = {}
    /\ http = NoRequest
    /\ calls = NoCalls
    /\ sessions = [t \in Threads |-> NoSession]
    /\ progress = {}
    /\ cache = [k \in CacheKeys |-> NoEntry]
    /\ presp = NoProgressRequest
    /\ obj \in {[NoObject EXCEPT !.target = f] : f \in PIIFields} \cup
               {[NoObject EXCEPT !.target = "password", !.lib = l] : l \in BcryptReleases}
    /\ bus = NoBus

NextModels ==
    \/ \E value \in Texts, iv \in IVs : CallSetter(value, iv)
    \/ CallGetter
    \/ \E password \in Passwords : CallSetPassword(password)
    \/ \E q \in Passwords : CallCheckPassword(q)

SpecModels == InitModels /\ [][NextModels]_vars

\* C22 as stated: for every string s the round trip returns s, so after a
\* setter was called with a value (non-empty for the profile fields) the
\* getter returns that value.
C22_RoundTripEveryString ==
    LET getter == IF obj.target = "email" THEN User_get_email(obj.column)
                  ELSE get_profile_field(obj.column)
    IN (obj.last.op = "set" /\ (obj.target = "email" \/ obj.last.arg # <<>>)) =>
           /\ obj.last.exc = "none"
           /\ getter.exc = "none"
           /\ getter.ret = Some(obj.last.arg)

\* C22, amended: for every string s that UTF-8 can encode (no lone surrogate)
\* decrypt_data(encrypt_data(s)) = s: the setter stores a token, and the getter
\* then and later returns the value most recently stored.
C22_RoundTrip ==
    LET getter == IF obj.target = "email" THEN User_get_email(obj.column)
                  ELSE get_profile_field(obj.column)
    IN /\ (/\ obj.last.op = "set"
           /\ obj.target = "email" \/ obj.last.arg # <<>>
           /\ str_encode(obj.last.arg).exc = "none") =>
               /\ obj.last.exc = "none"
               /\ getter.exc = "none"
               /\ getter.ret = Some(obj.last.arg)
       /\ (obj.last.op = "get" /\ obj.given.some) =>
               /\ obj.last.exc = "none"
               /\ obj.last.ret = obj.given

C22_Witness ==
    /\ obj.last.op = "get"
    /\ obj.given.some
    /\ Len(EncodeAll(obj.given.text)) > Len(obj.given.text)
    /\ obj.last.ret = obj.given

\* C23: the getter of a PII field that was never set returns None and does
\* not call decrypt_data.
C23_UnsetGetterReturnsNone ==
    (obj.last.op = "get" /\ obj.column.null) =>
        /\ obj.last.exc = "none"
        /\ ~obj.last.ret.some
        /\ obj.last.decrypts = 0

\* C24: check_password(q) is true exactly for the password of the most recent
\* set_password and false, without raising, for every other q; a second
\* set_password with the same password stores another hash.
C24_PasswordVerification ==
    /\ (obj.last.op = "check_password" /\ obj.given.some) =>
           /\ obj.last.exc = "none"
           /\ obj.last.flag <=> (obj.last.arg = obj.given.text)
    /\ (obj.last.op = "set_password" /\ obj.last.exc = "none"
            /\ obj.prev_given = Some(obj.last.arg)) =>
           obj.password_hash # obj.prev_hash

\* C25: a login that returns a token returns one whose user_id, email and
\* user_type are the id, the decrypted email and the user_type of the stored
\* identity that was authenticated (the one with the email of the request),
\* and whose exp is the issue time plus JWT_EXPIRATION_HOURS; decoded at the
\* issue time with the same secret it verifies and yields that user_id.
C25_TokenCarriesIdentity ==
    [][(http' # http /\ http'.op = "login" /\ http'.status = 200) =>
         LET claims == http'.token.claims
             verified == jwt_decode([present |-> TRUE, pre |-> <<>>, tok |-> http'.token],
                                    JWT_SECRET, now)
         IN /\ claims.user_id \in DOMAIN users
            /\ users[claims.user_id].id = claims.user_id
            /\ get_email(users[claims.user_id]) = http'.email
            /\ claims.email = http'.email
            /\ claims.user_type = users[claims.user_id].user_type
            /\ claims.exp = now + JWT_EXPIRATION_HOURS
            /\ JWT_EXPIRATION_HOURS > 0 =>
                   /\ verified.exc = "none"
                   /\ verified.data.user_id = claims.user_id]_vars

C25_Witness ==
    /\ http.op = "login" /\ http.status = 200
    /\ now > 0
    /\ http.token.claims.exp = now + JWT_EXPIRATION_HOURS
    /\ http.token.claims.user_type = "instructor"

\* C26: for a token the Token Service issues, a guard gives the Authorization
\* value 'Bearer ' + t the outcome it gives t alone; a lower-case prefix is
\* not removed, and of a doubled prefix only the first is removed, so both
\* values fail verification and the operation is not run.
C26_BearerPrefixOptional ==
    (Served /\ req.header.present /\ req.header.tok \in IssuedLike) =>
        /\ req.header.pre = <<"Bearer ">> =>
               req.out = RunGuard(req.guard, [req.header EXCEPT !.pre = <<>>], req.args, req.at)
        /\ req.header.pre \in {<<"bearer ">>, <<"Bearer ", "Bearer ">>} =>
               /\ req.out.code = "TOKEN_INVALID"
               /\ req.out.calls = <<>>

C26_Witness ==
    /\ Served /\ req.header.present /\ req.header.tok \in IssuedLike
    /\ req.header.pre = <<"Bearer ">>
    /\ Accepted(req)
    /\ req.out = RunGuard(req.guard, [req.header EXCEPT !.pre = <<>>], req.args, req.at)

\* C27: after any sequence of registrations under one key, get_user_by_email(e)
\* returns a stored identity whose email decrypts to e when there is one, and
\* None when there is none, whichever IV the lookup's own encryption draws.
C27_LookupByEmail ==
    config.ENCRYPTION_KEY = "valid" =>
        \A e \in {"a@example.com", "b@example.com"}, iv \in IVs :
            LET id == get_user_by_email(users, e, iv)
            IN IF EmailStored(users, e)
               THEN id # 0 /\ get_email(users[id]) = e
               ELSE id = 0

\* C28: every registration answered 201 has published exactly one
\* user_registered event, for an identity that is committed, and no other
\* request has published any; the event carries the email as the hex of a
\* ciphertext of that identity's email and has no plain email.
C28_OneEventPerRegistration ==
    /\ Len(queue) = Cardinality(registered)
    /\ \A id \in registered : \E k \in DOMAIN queue : queue[k].user_id = id
    /\ \A k \in DOMAIN queue :
           /\ queue[k].event_type = "user_registered"
           /\ queue[k].user_id \in registered
           /\ queue[k].user_id \in DOMAIN users
           /\ "email" \notin DOMAIN queue[k]
           /\ decrypt_data(queue[k].email_encrypted.hex) = get_email(users[queue[k].user_id])

\* C30: a registration answered 400 or 500 has persisted no identity and no
\* profile.
C30_ErrorLeavesStoreUnchanged ==
    [][(http'.op = "register" /\ http'.status \in {400, 500}) =>
           /\ users' = users
           /\ profiles' = profiles]_vars

\* ------------------------------------------------------- the consumer alone
NextBus ==
    \/ \E body \in Bodies : Enqueue(body)
    \/ StartConsumer
    \/ \E raises \in BOOLEAN, ok1 \in BOOLEAN, ok2 \in BOOLEAN : Deliver(raises, ok1, ok2)

SpecBus == InitUser /\ [][NextBus]_vars

\* C29: every delivery is settled exactly once: completed exactly when the
\* callback returned, dead-lettered without a call of the callback when the
\* body is not valid JSON, abandoned when the callback raised, never both
\* completed and abandoned; and the consumer goes on after it.
C29_SettledExactlyOnce ==
    LET L == bus.last
        made == {L.settled[i].call : i \in DOMAIN L.settled}
        text == bytes_decode(L.body)
        notJson == text.exc # "none" \/ json_loads(text.text).exc # "none"
    IN L.delivered =>
           /\ Len(L.settled) = 1 /\ L.settled[1].ok
           /\ "complete" \in made <=> L.callback = "returned"
           /\ notJson => (made = {"dead_letter"} /\ L.callback = "not called")
           /\ L.callback = "raised" => made = {"abandon"}
           /\ ~({"complete", "abandon"} \subseteq made)
           /\ bus.running

====
